---- MODULE Spec2Model ----
(***************************************************************************)
(* Model of compositor/convert.rs: the bridge between the VR-runtime       *)
(* vocabulary (OpenXR), the native GPU API (Vulkan, through ash) and the   *)
(* abstraction layer (wgpu / wgpu-hal).                                    *)
(*                                                                         *)
(* Every public function of the file is one action.  The answers of the    *)
(* native driver and of the abstraction layer (the enumerated physical     *)
(* devices, the queue families, whether a creation call succeeds) are the  *)
(* action's inputs, drawn with \E.  The record `last` holds the inputs     *)
(* and the outcome of the call that ran last; `ctx` and `sc` are the       *)
(* Context and the Swapchain the calls produced; destroyLog is the         *)
(* sequence of native destroy calls issued so far.                         *)
(*                                                                         *)
(* A behaviour is one call chain: one of the free functions, or a Context  *)
(* constructor followed by create_swapchain and the drops.  The free       *)
(* functions keep no state between calls, so a second call from the same   *)
(* behaviour would show nothing a first call does not.                     *)
(***************************************************************************)
EXTENDS Integers, Sequences, FiniteSets, TLC

VARIABLES last, ctx, sc, destroyLog

vars == <<last, ctx, sc, destroyLog>>

(***************************************************************************)
(* Bounds of the model.                                                    *)
(***************************************************************************)
MaxMinor == 2        \* api versions x.0 .. x.MaxMinor
MaxCallerExts == 2   \* caller-supplied extension names per create info
MaxDevices == 2      \* enumerated physical devices
MaxFamilies == 2     \* queue families of a physical device
MaxCount == 4        \* n of SwapchainCreateData::Count(n)
MaxExternal == 3     \* images (distinct, out of ExternalImages) of ::External

(***************************************************************************)
(* Helpers.                                                                *)
(***************************************************************************)
SeqsUpTo(S, n) == UNION {[1..k -> S] : k \in 0..n}

InjSeqsUpTo(S, n) ==
  {s \in SeqsUpTo(S, n) : \A i, j \in DOMAIN s : i # j => s[i] # s[j]}

Contains(s, x) == \E i \in DOMAIN s : s[i] = x

Occurrences(s, x) == Cardinality({i \in DOMAIN s : s[i] = x})

\* Option<usize>
None == [some |-> FALSE, v |-> 0]
Some(n) == [some |-> TRUE, v |-> n]
UnwrapOr(o, d) == IF o.some THEN o.v ELSE d

\* StrResult<T>, and the two ways a call ends without returning one
Ok(v) == [kind |-> "Ok", err |-> "", value |-> v]
Err(e) == [kind |-> "Err", err |-> e, value |-> ""]
Panic(e) == [kind |-> "Panic", err |-> e, value |-> ""]
Fault(e) == [kind |-> "Fault", err |-> e, value |-> ""]

(***************************************************************************)
(* Api versions: vk::make_api_version(variant, major, minor, patch).       *)
(***************************************************************************)
MakeApiVersion(variant, major, minor, patch) ==
  variant * (2 ^ 29) + major * (2 ^ 22) + minor * (2 ^ 12) + patch

API_VERSION_1_1 == MakeApiVersion(0, 1, 1, 0)

\* line 12: the first argument of make_api_version is the variant
TARGET_VULKAN_VERSION == MakeApiVersion(1, 0, 0, 0)

Versions ==
  {MakeApiVersion(v, ma, mi, p) :
     v \in 0..1, ma \in 0..1, mi \in 0..MaxMinor, p \in 0..1}

(***************************************************************************)
(* get_vulkan_instance_extensions: the abstraction layer's answer `req`    *)
(* (hal Instance::required_extensions) handed on through trace_err!.       *)
(***************************************************************************)
InstanceExtLists ==
  {<<"VK_KHR_surface">>, <<"VK_KHR_surface", "VK_EXT_debug_utils">>}

ResolverOutcomes ==
  {[ok |-> FALSE, exts |-> <<>>]} \cup
  {[ok |-> TRUE, exts |-> e] : e \in InstanceExtLists}

GetVulkanInstanceExtensions(req) == req

(***************************************************************************)
(* get_vulkan_device_extensions                                            *)
(***************************************************************************)
GetVulkanDeviceExtensions_LessEq(version) ==
  IF version <= API_VERSION_1_1
  THEN <<"VK_KHR_swapchain", "VK_KHR_maintenance1", "VK_KHR_maintenance2">>
  ELSE <<"VK_KHR_swapchain">>

GetVulkanDeviceExtensions(version) ==
  LET extensions == <<"VK_KHR_swapchain">>
  IN IF version < API_VERSION_1_1
     THEN Append(Append(extensions, "VK_KHR_maintenance1"), "VK_KHR_maintenance2")
     ELSE extensions

(***************************************************************************)
(* create_vulkan_instance                                                  *)
(***************************************************************************)
InstanceCallerNames == {"VK_KHR_surface", "VK_KHR_display"}

InstanceCreateInfos ==
  {[api_version |-> v, extensions |-> e, layers |-> <<"passthrough">>] :
     v \in Versions, e \in SeqsUpTo(InstanceCallerNames, MaxCallerExts)}

\* The native calls create_vulkan_instance issues, in order.
CreateVulkanInstanceCalls(info, req) ==
  LET required == GetVulkanInstanceExtensions(req)
  IN IF ~required.ok THEN <<>>
     ELSE LET extensions_ptrs == required.exts \o info.extensions
          IN <<[api |-> "vkCreateInstance",
                info |-> [info EXCEPT !.extensions = extensions_ptrs]]>>

CreateVulkanInstanceResult(info, req, nativeOk) ==
  IF ~GetVulkanInstanceExtensions(req).ok THEN Err("ExtensionQueryError")
  ELSE IF ~nativeOk THEN Err("InstanceCreationError")
  ELSE Ok("vk_instance")

(***************************************************************************)
(* get_vulkan_graphics_device                                              *)
(***************************************************************************)
PhysicalDevices == {"gpuA", "gpuB", "gpuC"}

\* instance.enumerate_physical_devices()
EnumerationOutcomes ==
  {[ok |-> FALSE, devs |-> <<>>]} \cup
  {[ok |-> TRUE, devs |-> d] : d \in InjSeqsUpTo(PhysicalDevices, MaxDevices)}

AdapterIndices == {None} \cup {Some(n) : n \in 0..MaxDevices}

\* Vec::remove(index) panics when index >= len
GetVulkanGraphicsDevice(enum, adapter_index) ==
  IF ~enum.ok THEN Err("DeviceEnumerationError")
  ELSE LET index == UnwrapOr(adapter_index, 0)
       IN IF index >= Len(enum.devs)
          THEN Panic("removal index out of bounds")
          ELSE Ok(enum.devs[index + 1])

(***************************************************************************)
(* create_vulkan_device                                                    *)
(***************************************************************************)
DeviceCallerNames == {"VK_KHR_swapchain", "VK_KHR_external_memory"}

\* *const vk::PhysicalDeviceFeatures: null, or a struct of which the model
\* keeps the three fields the function writes and one it leaves alone
NullFeatures ==
  [null |-> TRUE, robust_buffer_access |-> FALSE, independent_blend |-> FALSE,
   sample_rate_shading |-> FALSE, geometry_shader |-> FALSE]

FeatureStructs ==
  [null : {FALSE}, robust_buffer_access : BOOLEAN, independent_blend : BOOLEAN,
   sample_rate_shading : BOOLEAN, geometry_shader : BOOLEAN]

DeviceCreateInfos ==
  {[queue_family_index |-> 0, extensions |-> e, features |-> f] :
     e \in SeqsUpTo(DeviceCallerNames, MaxCallerExts),
     f \in FeatureStructs \cup {NullFeatures}}

\* What a write through a null p_enabled_features can do: fault, or (the
\* store removed by the optimiser) nothing.
UbOutcomes == {"fault", "store_elided"}

ForceFeatures(features) ==
  [features EXCEPT !.robust_buffer_access = TRUE,
                   !.independent_blend = TRUE,
                   !.sample_rate_shading = TRUE]

\* [result, calls]: the outcome and the native calls issued, in order.
CreateVulkanDevice(version, physical_device, create_info, ub, nativeOk) ==
  LET extensions_ptrs == GetVulkanDeviceExtensions(version) \o create_info.extensions
      call(f) == [api |-> "vkCreateDevice",
                  physical_device |-> physical_device,
                  info |-> [create_info EXCEPT !.extensions = extensions_ptrs,
                                               !.features = f]]
      issue(f) == [result |-> IF nativeOk THEN Ok("vk_device")
                              ELSE Err("DeviceCreationError"),
                   calls |-> <<call(f)>>]
  IN IF create_info.features.null
     THEN IF ub = "fault"
          THEN [result |-> Fault("write through null p_enabled_features"),
                calls |-> <<>>]
          ELSE issue(create_info.features)
     ELSE issue(ForceFeatures(create_info.features))

(***************************************************************************)
(* Native handles, and what the abstraction layer does when one of its    *)
(* objects is released.  The layer is an external collaborator: these      *)
(* three follow its interface contract (a host instance or texture built   *)
(* from a native handle carries an optional drop guard, a host device a    *)
(* handle_is_owned flag).                                                  *)
(***************************************************************************)
VkInstance == [kind |-> "instance", id |-> 0]
VkDevice == [kind |-> "device", id |-> 0]
Image(kind, id) == [kind |-> kind, id |-> id]

\* wgpu-hal InstanceShared: a guard means the layer destroys the instance
HalInstanceDrop(drop_guard) == IF drop_guard THEN <<VkInstance>> ELSE <<>>

\* wgpu-hal DeviceShared
HalDeviceDrop(handle_is_owned) == IF handle_is_owned THEN <<VkDevice>> ELSE <<>>

\* wgpu-hal destroy_texture: a guard means the image is left alone
HalTextureDrop(texture) == IF texture.drop_guard THEN <<>> ELSE <<texture.image>>

(***************************************************************************)
(* Context::from_vulkan                                                    *)
(***************************************************************************)
\* what the abstraction layer can refuse
HalFailures ==
  {"none", "from_raw", "expose_adapter", "device_from_raw", "create_device_from_hal"}

\* line 153: owned.then(|| Box::new(()))  (TRUE: Some)
InstanceDropGuard_Negated(owned) == ~owned

InstanceDropGuard(owned) == owned

\* line 163: the handle_is_owned argument of device_from_raw
DeviceHandleIsOwned(owned) == owned

\* [result, step, instance_guard, handle_is_owned, destroys]: destroys are
\* the destroy calls of the objects released while the function unwinds.
FromVulkan(owned, version, req, enum, adapter_index, halFail) ==
  LET guard == InstanceDropGuard(owned)
      dev_owned == DeviceHandleIsOwned(owned)
      out(result, step, destroys) ==
        [result |-> result, step |-> step, instance_guard |-> guard,
         handle_is_owned |-> dev_owned, destroys |-> destroys]
      physical_device == GetVulkanGraphicsDevice(enum, adapter_index)
  IN IF ~GetVulkanInstanceExtensions(req).ok
       THEN out(Err("ExtensionQueryError"), "extensions", <<>>)
     ELSE IF halFail = "from_raw"
       THEN out(Err("Instance::from_raw"), "from_raw", <<>>)
     ELSE IF physical_device.kind # "Ok"
       THEN out(physical_device, "physical_device", HalInstanceDrop(guard))
     ELSE IF halFail = "expose_adapter"
       THEN out(Err("AdapterExposureError"), "expose_adapter", HalInstanceDrop(guard))
     ELSE IF halFail = "device_from_raw"
       THEN out(Err("device_from_raw"), "device_from_raw", HalInstanceDrop(guard))
     ELSE IF halFail = "create_device_from_hal"
       THEN out(Err("create_device_from_hal"), "create_device_from_hal",
                HalDeviceDrop(dev_owned) \o HalInstanceDrop(guard))
     ELSE out(Ok("Context"), "done", <<>>)

(***************************************************************************)
(* Context::new                                                            *)
(***************************************************************************)
QueueFlagSets == {{"COMPUTE", "TRANSFER"}, {"GRAPHICS", "COMPUTE"}}

\* get_physical_device_queue_family_properties
FamilyLists == SeqsUpTo(QueueFlagSets, MaxFamilies)

\* lines 210-218: enumerate().find_map(..), the index counted from 0
FindGraphicsFamily(families) ==
  LET hits == {i \in DOMAIN families : "GRAPHICS" \in families[i]}
  IN IF hits = {} THEN None
     ELSE Some((CHOOSE i \in hits : \A j \in hits : i <= j) - 1)

\* lines 227-232: queue create infos only
DefaultDeviceCreateInfo(queue_family_index) ==
  [queue_family_index |-> queue_family_index, extensions |-> <<>>,
   features |-> NullFeatures]

ContextNew(adapter_index, entryOk, req, instOk, enum, families, ub, devOk, halFail) ==
  LET info == [api_version |-> TARGET_VULKAN_VERSION, extensions |-> <<>>,
               layers |-> <<>>]
      vk_instance == CreateVulkanInstanceResult(info, req, instOk)
      physical_device == GetVulkanGraphicsDevice(enum, adapter_index)
      family == FindGraphicsFamily(families)
      queue_index == 0
      out(result, step, fam, calls, fv) ==
        [result |-> result, step |-> step, queue_family_index |-> fam,
         queue_index |-> queue_index, device_calls |-> calls,
         instance_guard |-> fv.instance_guard,
         handle_is_owned |-> fv.handle_is_owned, destroys |-> fv.destroys]
      nofv == [instance_guard |-> FALSE, handle_is_owned |-> FALSE, destroys |-> <<>>]
  IN IF ~entryOk THEN out(Err("Entry::new"), "entry", None, <<>>, nofv)
     ELSE IF vk_instance.kind # "Ok"
       THEN out(vk_instance, "create_vulkan_instance", None, <<>>, nofv)
     ELSE IF physical_device.kind # "Ok"
       THEN out(physical_device, "physical_device", None, <<>>, nofv)
     ELSE IF ~family.some
       THEN out(Panic("unwrap on None"), "queue_family", None, <<>>, nofv)
     ELSE LET dev == CreateVulkanDevice(TARGET_VULKAN_VERSION, physical_device.value,
                                        DefaultDeviceCreateInfo(family.v), ub, devOk)
          IN IF dev.result.kind # "Ok"
               THEN out(dev.result, "create_vulkan_device", family, dev.calls, nofv)
             ELSE LET fv == FromVulkan(TRUE, TARGET_VULKAN_VERSION, req, enum,
                                       adapter_index, halFail)
                  IN out(fv.result,
                         IF fv.result.kind = "Ok" THEN "done" ELSE "from_vulkan",
                         family, dev.calls, fv)

(***************************************************************************)
(* create_swapchain: the usage block (lines 276-318).  A bitset is the set *)
(* of its bits' names; each vocabulary has its own prefix.                 *)
(***************************************************************************)
UsageBits ==
  {"COLOR_ATTACHMENT", "DEPTH_STENCIL_ATTACHMENT", "UNORDERED_ACCESS",
   "TRANSFER_SRC", "TRANSFER_DST", "SAMPLED", "MUTABLE_FORMAT",
   "INPUT_ATTACHMENT"}

When(cond, bits) == IF cond THEN bits ELSE {}

Translate_StorageForUnordered(usage) ==
  [vk |-> When("COLOR_ATTACHMENT" \in usage, {"vk.COLOR_ATTACHMENT"})
          \cup When("DEPTH_STENCIL_ATTACHMENT" \in usage, {"vk.DEPTH_STENCIL_ATTACHMENT"})
          \cup When("UNORDERED_ACCESS" \in usage, {"vk.STORAGE"})
          \cup When("TRANSFER_SRC" \in usage, {"vk.TRANSFER_SRC"})
          \cup When("TRANSFER_DST" \in usage, {"vk.TRANSFER_DST"})
          \cup When("SAMPLED" \in usage, {"vk.SAMPLED"})
          \cup When("INPUT_ATTACHMENT" \in usage, {"vk.INPUT_ATTACHMENT"}),
   hal |-> When("COLOR_ATTACHMENT" \in usage, {"hal.COLOR_TARGET"})
          \cup When("DEPTH_STENCIL_ATTACHMENT" \in usage,
                  {"hal.DEPTH_STENCIL_READ", "hal.DEPTH_STENCIL_WRITE"})
          \cup When("TRANSFER_SRC" \in usage, {"hal.COPY_SRC"})
          \cup When("TRANSFER_DST" \in usage, {"hal.COPY_DST"})
          \cup When("SAMPLED" \in usage, {"hal.RESOURCE"}),
   wgpu |-> When("COLOR_ATTACHMENT" \in usage, {"wgpu.RENDER_ATTACHMENT"})
          \cup When("DEPTH_STENCIL_ATTACHMENT" \in usage, {"wgpu.RENDER_ATTACHMENT"})
          \cup When("TRANSFER_SRC" \in usage, {"wgpu.COPY_SRC"})
          \cup When("TRANSFER_DST" \in usage, {"wgpu.COPY_DST"})
          \cup When("SAMPLED" \in usage, {"wgpu.TEXTURE_BINDING"})]

Translate(usage) ==
  LET vk1 == When("COLOR_ATTACHMENT" \in usage, {"vk.COLOR_ATTACHMENT"})
      hal1 == When("COLOR_ATTACHMENT" \in usage, {"hal.COLOR_TARGET"})
      wgpu1 == When("COLOR_ATTACHMENT" \in usage, {"wgpu.RENDER_ATTACHMENT"})
      vk2 == vk1 \cup When("DEPTH_STENCIL_ATTACHMENT" \in usage,
                           {"vk.DEPTH_STENCIL_ATTACHMENT"})
      hal2 == hal1 \cup When("DEPTH_STENCIL_ATTACHMENT" \in usage,
                             {"hal.DEPTH_STENCIL_READ", "hal.DEPTH_STENCIL_WRITE"})
      wgpu2 == wgpu1 \cup When("DEPTH_STENCIL_ATTACHMENT" \in usage,
                               {"wgpu.RENDER_ATTACHMENT"})
      \* UNORDERED_ACCESS: an empty branch
      vk3 == vk2 \cup When("TRANSFER_SRC" \in usage, {"vk.TRANSFER_SRC"})
      hal3 == hal2 \cup When("TRANSFER_SRC" \in usage, {"hal.COPY_SRC"})
      wgpu3 == wgpu2 \cup When("TRANSFER_SRC" \in usage, {"wgpu.COPY_SRC"})
      vk4 == vk3 \cup When("TRANSFER_DST" \in usage, {"vk.TRANSFER_DST"})
      hal4 == hal3 \cup When("TRANSFER_DST" \in usage, {"hal.COPY_DST"})
      wgpu4 == wgpu3 \cup When("TRANSFER_DST" \in usage, {"wgpu.COPY_DST"})
      vk5 == vk4 \cup When("SAMPLED" \in usage, {"vk.SAMPLED"})
      hal5 == hal4 \cup When("SAMPLED" \in usage, {"hal.RESOURCE"})
      wgpu5 == wgpu4 \cup When("SAMPLED" \in usage, {"wgpu.TEXTURE_BINDING"})
      \* MUTABLE_FORMAT: an empty branch
      vk6 == vk5 \cup When("INPUT_ATTACHMENT" \in usage, {"vk.INPUT_ATTACHMENT"})
  IN [vk |-> vk6, hal |-> hal5, wgpu |-> wgpu5]

(***************************************************************************)
(* create_swapchain: the images and the textures.                          *)
(***************************************************************************)
ExternalImages == {Image("external", 1), Image("external", 2), Image("external", 3)}

External(images) == [tag |-> "External", images |-> images, count |-> 0]
Count(n) == [tag |-> "Count", images |-> <<>>, count |-> n]
DataNone == [tag |-> "None", images |-> <<>>, count |-> 0]

SwapchainCreateDatas ==
  {External(i) : i \in InjSeqsUpTo(ExternalImages, MaxExternal)}
  \cup {Count(n) : n \in 0..MaxCount} \cup {DataNone}

\* the shape parameters of a call: a plain 2D swapchain and a cubemap one
Shapes ==
  [format : {"Rgba8UnormSrgb"}, vk_format : {"R8G8B8A8_SRGB"}, sample_count : {1},
   width : {1024}, height : {512}, cubemap : {FALSE}, array_size : {1},
   mip_count : {1}]
  \cup
  [format : {"Rgba8UnormSrgb"}, vk_format : {"R8G8B8A8_SRGB"}, sample_count : {1},
   width : {512}, height : {512}, cubemap : {TRUE}, array_size : {6},
   mip_count : {1}]

\* line 274
SwapchainOwned(data) == ~(data.tag = "External")

\* lines 323-327
RequestedCount_OffByOne(data) == IF data.tag = "Count" THEN data.count + 1 ELSE 2

RequestedCount(data) == IF data.tag = "Count" THEN data.count ELSE 2

\* lines 329-332, 339-354
ImageCreateInfo(shape, vk_usage) ==
  [flags |-> When(shape.cubemap, {"CUBE_COMPATIBLE"}), image_type |-> "TYPE_2D",
   format |-> shape.vk_format,
   extent |-> [width |-> shape.width, height |-> shape.height, depth |-> 1],
   mip_levels |-> shape.mip_count, array_layers |-> shape.array_size,
   samples |-> shape.sample_count, tiling |-> "OPTIMAL", usage |-> vk_usage,
   sharing_mode |-> "EXCLUSIVE", initial_layout |-> "UNDEFINED"]

\* lines 334-362: the loop over 0..count.  The native layer fails the
\* failAt-th create_image call (none when failAt = 0); calls counts the
\* create_image calls issued.
RECURSIVE CreateImagesLoop_SkipFailed(_, _, _, _)
CreateImagesLoop_SkipFailed(count, failAt, i, images) ==
  IF i >= count THEN [ok |-> TRUE, images |-> images, calls |-> i]
  ELSE IF failAt = i + 1
    THEN CreateImagesLoop_SkipFailed(count, failAt, i + 1, images)
  ELSE CreateImagesLoop_SkipFailed(count, failAt, i + 1,
                                   Append(images, Image("created", i + 1)))

RECURSIVE CreateImagesLoop(_, _, _, _)
CreateImagesLoop(count, failAt, i, images) ==
  IF i >= count THEN [ok |-> TRUE, images |-> images, calls |-> i]
  ELSE IF failAt = i + 1
    THEN [ok |-> FALSE, images |-> images, calls |-> i + 1]
  ELSE CreateImagesLoop(count, failAt, i + 1,
                        Append(images, Image("created", i + 1)))

\* line 388: (!owned).then(|| Box::new(()))  (TRUE: Some)
TextureDropGuard_Owned(owned) == owned

TextureDropGuard(owned) == ~owned

\* lines 371-411: texture_from_raw, then create_texture_from_hal
ImportTexture(image, owned, tr, shape) ==
  [image |-> image, drop_guard |-> TextureDropGuard(owned),
   hal_desc |-> [width |-> shape.width, height |-> shape.height,
                 depth_or_array_layers |-> shape.array_size,
                 mip_level_count |-> shape.mip_count,
                 sample_count |-> shape.sample_count, dimension |-> "D2",
                 format |-> shape.format, usage |-> tr.hal],
   desc |-> [width |-> shape.width, height |-> shape.height,
             depth_or_array_layers |-> shape.array_size,
             mip_level_count |-> shape.mip_count,
             sample_count |-> shape.sample_count, dimension |-> "D2",
             format |-> shape.format, usage |-> tr.wgpu]]

\* Compositor::swapchain, defined outside this file
Swapchain(textures, raw_images, memory, array_size) ==
  [state |-> "live", textures |-> textures, raw_images |-> raw_images,
   memory |-> memory, array_size |-> array_size]

\* [result, tr, image_calls, created, imports, swapchain]
CreateSwapchain(data, usage, shape, failAt) ==
  LET owned == SwapchainOwned(data)
      tr == Translate(usage)
      made == IF data.tag = "External"
              THEN [ok |-> TRUE, images |-> data.images, calls |-> 0]
              ELSE CreateImagesLoop(RequestedCount(data), failAt, 0, <<>>)
      raw_images == made.images
      memory == <<>>
      textures == [k \in 1..Len(raw_images) |->
                     ImportTexture(raw_images[k], owned, tr, shape)]
      created == IF data.tag = "External" THEN <<>> ELSE made.images
      imported == [k \in 1..Len(textures) |-> textures[k].image]
  IN IF ~made.ok
     THEN [result |-> Err("ImageCreationError"), tr |-> tr,
           image_calls |-> made.calls, created |-> created, imports |-> <<>>,
           swapchain |-> [state |-> "failed", textures |-> <<>>,
                          raw_images |-> <<>>, memory |-> <<>>, array_size |-> 0]]
     ELSE [result |-> Ok("Swapchain"), tr |-> tr,
           image_calls |-> made.calls, created |-> created, imports |-> imported,
           swapchain |-> Swapchain(textures, raw_images, memory, shape.array_size)]

(***************************************************************************)
(* State                                                                   *)
(***************************************************************************)
NoContext ==
  [state |-> "none", owned |-> FALSE, instance_guard |-> FALSE,
   handle_is_owned |-> FALSE]

NoSwapchain ==
  [state |-> "none", textures |-> <<>>, raw_images |-> <<>>,
   memory |-> <<>>, array_size |-> 0]

Init ==
  /\ last = [op |-> "init"]
  /\ ctx = NoContext
  /\ sc = NoSwapchain
  /\ destroyLog = <<>>

Fresh == last.op = "init"

(***************************************************************************)
(* The free functions as actions.                                          *)
(***************************************************************************)
CallGetVulkanDeviceExtensions ==
  /\ Fresh
  /\ \E version \in Versions :
       last' = [op |-> "get_vulkan_device_extensions", version |-> version,
                result |-> GetVulkanDeviceExtensions(version)]
  /\ UNCHANGED <<ctx, sc, destroyLog>>

CallCreateVulkanInstance ==
  /\ Fresh
  /\ \E info \in InstanceCreateInfos, req \in ResolverOutcomes, nativeOk \in BOOLEAN :
       last' = [op |-> "create_vulkan_instance", info |-> info, req |-> req,
                calls |-> CreateVulkanInstanceCalls(info, req),
                result |-> CreateVulkanInstanceResult(info, req, nativeOk)]
  /\ UNCHANGED <<ctx, sc, destroyLog>>

CallGetVulkanGraphicsDevice ==
  /\ Fresh
  /\ \E enum \in EnumerationOutcomes, adapter_index \in AdapterIndices :
       last' = [op |-> "get_vulkan_graphics_device", enum |-> enum,
                adapter_index |-> adapter_index,
                result |-> GetVulkanGraphicsDevice(enum, adapter_index)]
  /\ UNCHANGED <<ctx, sc, destroyLog>>

CallCreateVulkanDevice ==
  /\ Fresh
  /\ \E version \in Versions, create_info \in DeviceCreateInfos,
        ub \in UbOutcomes, nativeOk \in BOOLEAN :
       LET r == CreateVulkanDevice(version, "gpuA", create_info, ub, nativeOk)
       IN last' = [op |-> "create_vulkan_device", version |-> version,
                   create_info |-> create_info,
                   calls |-> r.calls, result |-> r.result]
  /\ UNCHANGED <<ctx, sc, destroyLog>>

\* The Context a constructor returned, or none.
ContextOf(r, owned) ==
  IF r.result.kind = "Ok"
  THEN [state |-> "live", owned |-> owned, instance_guard |-> r.instance_guard,
        handle_is_owned |-> r.handle_is_owned]
  ELSE NoContext

CallContextFromVulkan ==
  /\ Fresh
  /\ \E owned \in BOOLEAN, version \in Versions, req \in ResolverOutcomes,
        enum \in EnumerationOutcomes, adapter_index \in AdapterIndices,
        halFail \in HalFailures :
       LET r == FromVulkan(owned, version, req, enum, adapter_index, halFail)
       IN /\ last' = [op |-> "from_vulkan", owned |-> owned, step |-> r.step,
                      result |-> r.result]
          /\ ctx' = ContextOf(r, owned)
          /\ destroyLog' = destroyLog \o r.destroys
  /\ UNCHANGED sc

CallContextNew ==
  /\ Fresh
  /\ \E adapter_index \in AdapterIndices, entryOk \in BOOLEAN,
        req \in ResolverOutcomes, instOk \in BOOLEAN,
        enum \in EnumerationOutcomes, families \in FamilyLists,
        ub \in UbOutcomes, devOk \in BOOLEAN, halFail \in HalFailures :
       LET r == ContextNew(adapter_index, entryOk, req, instOk, enum, families,
                           ub, devOk, halFail)
       IN /\ last' = [op |-> "new", families |-> families, step |-> r.step,
                      queue_family_index |-> r.queue_family_index,
                      queue_index |-> r.queue_index,
                      device_calls |-> r.device_calls, result |-> r.result]
          /\ ctx' = ContextOf(r, TRUE)
          /\ destroyLog' = destroyLog \o r.destroys
  /\ UNCHANGED sc

\* The Context goes out of scope: the abstraction layer releases its device,
\* then its instance.  raw_device is an ash::Device, which has no Drop.
DropContext ==
  /\ ctx.state = "live"
  /\ sc.state # "live"
  /\ ctx' = [ctx EXCEPT !.state = "dropped"]
  /\ destroyLog' = destroyLog \o HalDeviceDrop(ctx.handle_is_owned)
                              \o HalInstanceDrop(ctx.instance_guard)
  /\ UNCHANGED <<last, sc>>

CallCreateSwapchain ==
  /\ ctx.state = "live"
  /\ sc.state = "none"
  /\ \E data \in SwapchainCreateDatas, usage \in SUBSET UsageBits,
        shape \in Shapes, failAt \in 0..(MaxCount + 2) :
       /\ failAt <= (IF data.tag = "External" THEN 0 ELSE RequestedCount(data))
       /\ LET r == CreateSwapchain(data, usage, shape, failAt)
          IN /\ last' = [op |-> "create_swapchain", data |-> data, usage |-> usage,
                         shape |-> shape, failAt |-> failAt, tr |-> r.tr,
                         image_create_info |-> ImageCreateInfo(shape, r.tr.vk),
                         image_calls |-> r.image_calls, created |-> r.created,
                         imports |-> r.imports, result |-> r.result]
             /\ sc' = r.swapchain
  /\ UNCHANGED <<ctx, destroyLog>>

\* The Swapchain goes out of scope: the abstraction layer releases each
\* texture in turn.
RECURSIVE TextureDrops(_)
TextureDrops(textures) ==
  IF textures = <<>> THEN <<>>
  ELSE HalTextureDrop(Head(textures)) \o TextureDrops(Tail(textures))

DropSwapchain ==
  /\ sc.state = "live"
  /\ sc' = [sc EXCEPT !.state = "dropped"]
  /\ destroyLog' = destroyLog \o TextureDrops(sc.textures)
  /\ UNCHANGED <<last, ctx>>

Next ==
  \/ CallCreateSwapchain
  \/ DropSwapchain
  \/ CallContextFromVulkan
  \/ CallContextNew
  \/ DropContext
  \/ CallGetVulkanDeviceExtensions
  \/ CallCreateVulkanInstance
  \/ CallGetVulkanGraphicsDevice
  \/ CallCreateVulkanDevice

Spec == Init /\ [][Next]_vars

(***************************************************************************)
(* Properties.                                                             *)
(***************************************************************************)
DestroyCalls(handle) == Occurrences(destroyLog, handle)

\* C1: a Context built by from_vulkan with owned = false never causes a
\* destroy call on the supplied instance or device, on any path (a failed
\* construction, a live Context, a Context discarded after use); the
\* destruction of both is handed to the wrapping layer exactly when owned.
C1_BorrowedContextLeavesHandles ==
  /\ (last.op = "from_vulkan" /\ ~last.owned) =>
       (DestroyCalls(VkInstance) = 0 /\ DestroyCalls(VkDevice) = 0)
  /\ ctx.state # "none" =>
       /\ ctx.instance_guard = ctx.owned
       /\ ctx.handle_is_owned = ctx.owned
       /\ ~ctx.owned => (DestroyCalls(VkInstance) = 0 /\ DestroyCalls(VkDevice) = 0)

C1_Witness ==
  /\ ctx.state = "dropped"
  /\ ~ctx.owned
  /\ sc.state = "dropped"
  /\ DestroyCalls(VkInstance) = 0
  /\ DestroyCalls(VkDevice) = 0

\* C2: the textures of a swapchain are all imported as Borrowed (with a drop
\* guard) when data is External and all as Owned otherwise, and no image of
\* External(images) is ever destroyed, the discarded Swapchain included.
C2_OwnershipFromVariant ==
  last.op = "create_swapchain" =>
    LET external == (last.data.tag = "External")
    IN /\ \A k \in DOMAIN sc.textures : sc.textures[k].drop_guard = external
       /\ external =>
            \A k \in DOMAIN last.data.images : DestroyCalls(last.data.images[k]) = 0

C2_Witness ==
  /\ last.op = "create_swapchain"
  /\ last.data.tag = "External"
  /\ last.data.images = <<Image("external", 2), Image("external", 3), Image("external", 1)>>
  /\ Len(sc.textures) = 3
  /\ \A k \in 1..3 : sc.textures[k].drop_guard
  /\ sc.state = "dropped"
  /\ ctx.state = "dropped"

ExpectedImageCount(data) ==
  CASE data.tag = "External" -> Len(data.images)
    [] data.tag = "Count" -> data.count
    [] OTHER -> 2

\* C3: a returned Swapchain has as many textures as raw images as the image
\* count of its data (len(images), n, or 2); textures[k] imports
\* rawImages[k]; External images are kept in order; memory is empty and the
\* array size is the requested one.
C3_SwapchainShape ==
  (last.op = "create_swapchain" /\ last.result.kind = "Ok") =>
    /\ sc.state \in {"live", "dropped"}
    /\ Len(sc.textures) = ExpectedImageCount(last.data)
    /\ Len(sc.raw_images) = ExpectedImageCount(last.data)
    /\ \A k \in DOMAIN sc.textures : sc.textures[k].image = sc.raw_images[k]
    /\ last.data.tag = "External" => sc.raw_images = last.data.images
    /\ sc.memory = <<>>
    /\ sc.array_size = last.shape.array_size

C3_Witness ==
  /\ last.op = "create_swapchain"
  /\ last.result.kind = "Ok"
  /\ last.data = Count(4)
  /\ Len(sc.textures) = 4
  /\ sc.state = "live"

\* C4 (as claimed): get_vulkan_graphics_device returns the entry at
\* adapter_index (0 when None) and otherwise a DeviceEnumerationError result.
C4_OutOfRangeIsAnError ==
  last.op = "get_vulkan_graphics_device" =>
    LET index == IF last.adapter_index.some THEN last.adapter_index.v ELSE 0
    IN IF last.enum.ok /\ index < Len(last.enum.devs)
       THEN last.result = Ok(last.enum.devs[index + 1])
       ELSE last.result = Err("DeviceEnumerationError")

ForcedOn(features) ==
  /\ ~features.null
  /\ features.robust_buffer_access
  /\ features.independent_blend
  /\ features.sample_rate_shading

\* C5 (as claimed): every create_vulkan_device call, the one Context::new
\* makes included, issues device creation with the three features on.
C5_FeaturesForcedOn ==
  /\ last.op = "create_vulkan_device" =>
       (Len(last.calls) = 1 /\ ForcedOn(last.calls[1].info.features))
  /\ (last.op = "new" /\ last.step \in {"create_vulkan_device", "from_vulkan", "done"}) =>
       (Len(last.device_calls) = 1 /\ ForcedOn(last.device_calls[1].info.features))

\* C6 (as claimed): Context::new takes the lowest-indexed graphics queue
\* family and queue index 0, and with no graphics family returns a
\* QueueFamilySelectionError without creating a device.
C6_NoGraphicsFamilyIsAnError ==
  (last.op = "new" /\ last.step \notin {"entry", "create_vulkan_instance", "physical_device"}) =>
    LET hits == {i \in DOMAIN last.families : "GRAPHICS" \in last.families[i]}
    IN IF hits # {}
       THEN /\ last.queue_family_index.some
            /\ last.queue_family_index.v + 1 \in hits
            /\ \A j \in hits : last.queue_family_index.v + 1 <= j
            /\ last.queue_index = 0
       ELSE /\ last.result = Err("QueueFamilySelectionError")
            /\ last.device_calls = <<>>

\* C7: when the k-th create_image call fails, create_swapchain ends with an
\* ImageCreationError and no Swapchain, having issued k create_image calls
\* and no texture import, and the k-1 images created are not destroyed.
C7_ImageFailureAborts ==
  (last.op = "create_swapchain" /\ last.failAt > 0) =>
    /\ last.result = Err("ImageCreationError")
    /\ sc.state = "failed"
    /\ sc.textures = <<>>
    /\ last.image_calls = last.failAt
    /\ last.imports = <<>>
    /\ Len(last.created) = last.failAt - 1
    /\ \A k \in DOMAIN last.created : DestroyCalls(last.created[k]) = 0

C7_Witness ==
  /\ last.op = "create_swapchain"
  /\ last.data = Count(4)
  /\ last.failAt = 3
  /\ Len(last.created) = 2
  /\ ctx.state = "dropped"

\* the table of the usage translation, row by row
Row(bit) ==
  CASE bit = "COLOR_ATTACHMENT" ->
         [vk |-> {"vk.COLOR_ATTACHMENT"}, hal |-> {"hal.COLOR_TARGET"},
          wgpu |-> {"wgpu.RENDER_ATTACHMENT"}]
    [] bit = "DEPTH_STENCIL_ATTACHMENT" ->
         [vk |-> {"vk.DEPTH_STENCIL_ATTACHMENT"},
          hal |-> {"hal.DEPTH_STENCIL_READ", "hal.DEPTH_STENCIL_WRITE"},
          wgpu |-> {"wgpu.RENDER_ATTACHMENT"}]
    [] bit = "TRANSFER_SRC" ->
         [vk |-> {"vk.TRANSFER_SRC"}, hal |-> {"hal.COPY_SRC"},
          wgpu |-> {"wgpu.COPY_SRC"}]
    [] bit = "TRANSFER_DST" ->
         [vk |-> {"vk.TRANSFER_DST"}, hal |-> {"hal.COPY_DST"},
          wgpu |-> {"wgpu.COPY_DST"}]
    [] bit = "SAMPLED" ->
         [vk |-> {"vk.SAMPLED"}, hal |-> {"hal.RESOURCE"},
          wgpu |-> {"wgpu.TEXTURE_BINDING"}]
    [] bit = "INPUT_ATTACHMENT" ->
         [vk |-> {"vk.INPUT_ATTACHMENT"}, hal |-> {}, wgpu |-> {}]
    [] OTHER -> [vk |-> {}, hal |-> {}, wgpu |-> {}]

TableUnion(usage) ==
  [vk |-> UNION {Row(b).vk : b \in usage},
   hal |-> UNION {Row(b).hal : b \in usage},
   wgpu |-> UNION {Row(b).wgpu : b \in usage}]

UsageUnion(x, y) ==
  [vk |-> x.vk \cup y.vk, hal |-> x.hal \cup y.hal, wgpu |-> x.wgpu \cup y.wgpu]

\* C8: the three usages create_swapchain derives are the union of the table
\* rows of the set bits; the translation is additive over disjoint usages
\* and maps the empty usage to three empty bitsets.
C8_TranslateIsTableUnion ==
  last.op = "create_swapchain" =>
    /\ last.tr = TableUnion(last.usage)
    /\ last.image_create_info.usage = TableUnion(last.usage).vk
    /\ \A k \in DOMAIN sc.textures :
         /\ sc.textures[k].hal_desc.usage = TableUnion(last.usage).hal
         /\ sc.textures[k].desc.usage = TableUnion(last.usage).wgpu
    /\ \A b \in SUBSET (UsageBits \ last.usage) :
         UsageUnion(last.tr, Translate(b)) = Translate(last.usage \cup b)
    /\ last.usage = {} => last.tr = [vk |-> {}, hal |-> {}, wgpu |-> {}]

C8_Witness ==
  /\ last.op = "create_swapchain"
  /\ last.usage = UsageBits
  /\ last.tr.hal = {"hal.COLOR_TARGET", "hal.DEPTH_STENCIL_READ",
                    "hal.DEPTH_STENCIL_WRITE", "hal.COPY_SRC", "hal.COPY_DST",
                    "hal.RESOURCE"}
  /\ Len(sc.textures) = 2

\* C9: get_vulkan_device_extensions always lists the swapchain extension,
\* lists both maintenance extensions when the encoded version is below the
\* encoded 1.1 and neither of them otherwise.
C9_DeviceExtensionsByVersion ==
  last.op = "get_vulkan_device_extensions" =>
    LET below == last.version < MakeApiVersion(0, 1, 1, 0)
    IN /\ Contains(last.result, "VK_KHR_swapchain")
       /\ below => /\ Contains(last.result, "VK_KHR_maintenance1")
                   /\ Contains(last.result, "VK_KHR_maintenance2")
       /\ ~below => /\ ~Contains(last.result, "VK_KHR_maintenance1")
                    /\ ~Contains(last.result, "VK_KHR_maintenance2")

C9_Witness ==
  /\ last.op = "get_vulkan_device_extensions"
  /\ last.version = MakeApiVersion(0, 1, 1, 0)
  /\ last.result = <<"VK_KHR_swapchain">>

\* C10 (as claimed): create_vulkan_instance and create_vulkan_device issue
\* exactly one native creation call per invocation, none when the resolver
\* fails, with the resolver's extensions followed by the caller's.
C10_OneCallWithMergedExtensions ==
  /\ last.op = "create_vulkan_instance" =>
       IF ~last.req.ok THEN last.calls = <<>>
       ELSE /\ Len(last.calls) = 1
            /\ last.calls[1].info.extensions = last.req.exts \o last.info.extensions
  /\ last.op = "create_vulkan_device" =>
       /\ Len(last.calls) = 1
       /\ last.calls[1].info.extensions =
            (IF last.version < MakeApiVersion(0, 1, 1, 0)
             THEN <<"VK_KHR_swapchain", "VK_KHR_maintenance1", "VK_KHR_maintenance2">>
             ELSE <<"VK_KHR_swapchain">>) \o last.create_info.extensions

====
